---- MODULE Spec2Model ----
(***************************************************************************)
(* A model of the grow-only counter of CRDT.py (class GCounter).           *)
(*                                                                         *)
(* A counter state is a Python dict replica id -> count: a function whose  *)
(* domain is the set of keys the dict holds.  self.state is either a       *)
(* collections.defaultdict(int) (after __init__ without a truthy seed) or  *)
(* a plain dict (whatever merge returned); the two differ in what          *)
(* self.state[k] does for an absent key, so the model keeps the kind.      *)
(***************************************************************************)
EXTENDS Integers, FiniteSets, Sequences, TLC

\* ---------------------------------------------------------------- bounds
\* Largest count a map of the model holds.
MaxCount == 2
\* Largest amount passed to one increment call.
MaxAmount == 2
\* Largest number of updates in flight at once.
MaxNet == 2

\* Replica identifiers of the model.
Ids == {"A", "B"}
\* Counts an injected seed or update may carry (negative ones included).
Counts == -1 .. MaxCount
\* Amounts passed to increment (negative ones included).
Amounts == -1 .. MaxAmount

\* ------------------------------------------------------------- dict model
\* The empty dict, {} or a fresh defaultdict(int).
EmptyMap == [k \in {} |-> 0]

\* Every dict over Ids with counts in Counts.
Maps == UNION {[D -> Counts] : D \in SUBSET Ids}

\* dict.get(k, 0): the stored count, 0 for an absent key; stores nothing.
Get(d, k) == IF k \in DOMAIN d THEN d[k] ELSE 0

\* Python's max of two integers.
Max(x, y) == IF x >= y THEN x ELSE y

\* d with d[k] = v stored (insert or update).
SetItem(d, k, v) == [j \in (DOMAIN d) \cup {k} |-> IF j = k THEN v ELSE d[j]]

\* merge taking the smaller count for each key.
merge_min(state1, state2) ==
    LET all_ids == (DOMAIN state1) \cup (DOMAIN state2)
    IN  [replica_id_k \in all_ids |->
            IF Get(state1, replica_id_k) <= Get(state2, replica_id_k)
            THEN Get(state1, replica_id_k) ELSE Get(state2, replica_id_k)]

\* merge as a raw overwrite by the received map.
merge_overwrite(state1, state2) == state2

\* merge iterating over the keys of the first map only.
merge_known_only(state1, state2) ==
    [replica_id_k \in DOMAIN state1 |->
        Max(Get(state1, replica_id_k), Get(state2, replica_id_k))]

\* merge adding the two counts of each key.
merge_sum(state1, state2) ==
    LET all_ids == (DOMAIN state1) \cup (DOMAIN state2)
    IN  [replica_id_k \in all_ids |->
            Get(state1, replica_id_k) + Get(state2, replica_id_k)]

\* merge preferring the first map's count wherever it has the key.
merge_left_bias(state1, state2) ==
    LET all_ids == (DOMAIN state1) \cup (DOMAIN state2)
    IN  [replica_id_k \in all_ids |->
            IF replica_id_k \in DOMAIN state1 THEN state1[replica_id_k]
            ELSE state2[replica_id_k]]

\* merge taking the larger of the counts present, with no default of 0 for
\* a key one map lacks.
merge_no_default(state1, state2) ==
    LET all_ids == (DOMAIN state1) \cup (DOMAIN state2)
    IN  [replica_id_k \in all_ids |->
            IF replica_id_k \notin DOMAIN state1 THEN state2[replica_id_k]
            ELSE IF replica_id_k \notin DOMAIN state2 THEN state1[replica_id_k]
            ELSE Max(state1[replica_id_k], state2[replica_id_k])]

\* GCounter.merge: the union of the keys, the larger count for each.
merge(state1, state2) ==
    LET all_ids == (DOMAIN state1) \cup (DOMAIN state2)
    IN  [replica_id_k \in all_ids |->
            Max(Get(state1, replica_id_k), Get(state2, replica_id_k))]

\* merge reading the first map by index: on a defaultdict, state1[k] stores
\* 0 for every key it lacks.
merge_inputs_indexed(state1, state2) ==
    <<[k \in (DOMAIN state1) \cup (DOMAIN state2) |-> Get(state1, k)], state2>>

\* The two argument dicts after merge returns: merge reads them through
\* keys() and get() only and writes to its own merged_state.
merge_inputs(state1, state2) == <<state1, state2>>

\* sum(d.values())
RECURSIVE SumValues(_)
SumValues(d) ==
    IF DOMAIN d = {} THEN 0
    ELSE LET k == CHOOSE j \in DOMAIN d : TRUE
         IN  d[k] + SumValues([j \in (DOMAIN d) \ {k} |-> d[j]])

\* value counting the entries instead of adding them up.
value_len(s) == Cardinality(DOMAIN s)

\* GCounter.value on a replica whose state map is s.
value(s) == SumValues(s)

\* The kind of object self.state is after __init__(replica_id, initial_state):
\* "if initial_state:" is false for None and for the empty dict.
construct_kind(seeded, initial_state) ==
    IF seeded /\ DOMAIN initial_state # {} THEN "dict" ELSE "defaultdict"

\* self.state after __init__.
construct_state(seeded, initial_state) ==
    IF seeded /\ DOMAIN initial_state # {}
    THEN merge(EmptyMap, initial_state)
    ELSE EmptyMap

\* increment without the amount check.
increment_raises_unchecked(kind, s, id, amount) ==
    IF kind = "dict" /\ id \notin DOMAIN s THEN "KeyError" ELSE "none"

\* What increment(amount) raises on a replica with this state: the amount
\* check first, then self.state[self.replica_id] += amount, which reads the
\* entry: a defaultdict supplies 0 for an absent key, a plain dict raises.
increment_raises(kind, s, id, amount) ==
    IF amount < 0 THEN "ValueError"
    ELSE IF kind = "dict" /\ id \notin DOMAIN s THEN "KeyError"
    ELSE "none"

\* increment rebuilding the map from the own entry alone.
increment_state_own_only(s, id, amount) ==
    [k \in {id} |-> Get(s, id) + amount]

\* self.state after a successful self.state[self.replica_id] += amount.
increment_state(s, id, amount) == SetItem(s, id, Get(s, id) + amount)

\* increment returning the whole state map as its operation.
increment_op_full(s, id) == s

\* The operation a successful increment returns, read from the new state.
increment_op(s, id) == [k \in {id} |-> s[id]]

\* apply_update storing the received map in place of the local one.
apply_update_replace(s, update_state) == update_state

\* self.state after apply_update(update_state).
apply_update_state(s, update_state) == merge(s, update_state)

\* ------------------------------------------------- one replica, any input
VARIABLES
    replica_id,   \* self.replica_id
    state,        \* self.state, as a map
    kind,         \* "defaultdict" or "dict": the type of self.state
    pre,          \* [replica_id, state]: the replica before the last call
    call          \* the last call: [op, amount, update, raised, ret]

varsR == <<replica_id, state, kind, pre, call>>

\* merge as a pure function: three argument dicts and the results of the
\* calls made on them so far.
VARIABLES
    a, b, c,      \* the dicts passed to merge, as they are now
    args0,        \* <<a, b, c>> as they were before the first call
    res           \* the maps returned so far: call label -> returned map

varsM == <<a, b, c, args0, res>>

\* Several replicas exchanging what they produce, as in the example usage:
\* the operations increment returned and copies of full states.
VARIABLES
    rstate,       \* replica -> its self.state
    rkind,        \* replica -> "defaultdict" or "dict"
    lastOp,       \* replica -> the operation its last successful increment
                  \* returned (EmptyMap before the first)
    net,          \* updates in flight: operations and full states sent
    hi,           \* replica p -> other replica r -> the largest count for r
                  \* in any update p has applied, -1 when none carried r
    incremented   \* replica -> the amounts of its successful increments,
                  \* added up

varsN == <<rstate, rkind, lastOp, net, hi, incremented>>

\* What the caller of one replica remembers of its calls.
VARIABLES
    kept,         \* at most one update applied earlier, kept for re-delivery
    own           \* [seeded, added, overstated, merged]: the own count after
                  \* construction, the amounts of the successful increments
                  \* added up, whether an update carried a larger own count
                  \* than these two together, and whether an update was
                  \* applied after a successful increment of a positive amount

varsG == <<kept, own>>

\* Two GCounter objects x and y with the same replica_id, to compare what
\* two histories make of them.
VARIABLES
    tid,          \* the replica_id of both
    twin,         \* object -> [state, kind]: its self.state and the type of it
    tin,          \* the arguments of the comparison: the seed of the
                  \* construction, or the two updates to apply
    tout,         \* object -> [op, raised, ret]: its last call and the outcome
    tlog          \* object -> [applied, first]: which of the two updates it
                  \* has applied so far, and which it applied first

varsT == <<tid, twin, tin, tout, tlog>>

\* Dict objects and the references to them: which object each replica's
\* self.state is, and which objects the caller of the replicas holds.
VARIABLES
    heap,         \* object -> [kind, map]: the dict objects
    self_state,   \* replica -> the object its self.state refers to, 0 before
                  \* the replica is constructed
    slots,        \* [op, passed]: the object increment returned last and the
                  \* dict the caller made last and passed in as initial_state
                  \* or update_state; 0 when there is none
    snap,         \* [op, passed]: their contents when they were handed over
    hlast         \* [actor, other]: the replica called last, and the state
                  \* map of the other replica before that call

varsH == <<heap, self_state, slots, snap, hlast>>

vars == <<varsR, varsM, varsN, varsG, varsT, varsH>>

\* No objects in the specifications that keep maps by value.
IdleH ==
    /\ heap = EmptyMap
    /\ self_state = EmptyMap
    /\ slots = EmptyMap
    /\ snap = EmptyMap
    /\ hlast = EmptyMap

\* The two objects.
Twins == {"x", "y"}

\* No objects to compare in the other specifications.
IdleT ==
    /\ tid = "A"
    /\ twin = EmptyMap
    /\ tin = EmptyMap
    /\ tout = EmptyMap
    /\ tlog = EmptyMap

\* Nothing remembered in the specifications without a single replica.
IdleG ==
    /\ kept = {}
    /\ own = [seeded |-> 0, added |-> 0, overstated |-> FALSE, merged |-> FALSE]

\* The replicas of the exchange; each has its name as replica_id.
Replicas == {"A", "B"}

\* No exchange in the specifications of one replica and of merge.
IdleN ==
    /\ rstate = EmptyMap
    /\ rkind = EmptyMap
    /\ lastOp = EmptyMap
    /\ net = {}
    /\ hi = EmptyMap
    /\ incremented = EmptyMap

\* No replica in the specification of merge alone.
IdleR ==
    /\ replica_id = "A"
    /\ state = EmptyMap
    /\ kind = "defaultdict"
    /\ pre = [replica_id |-> "A", state |-> EmptyMap, kept |-> {}]
    /\ call = [op |-> "none", amount |-> 0, update |-> EmptyMap,
               raised |-> "none", ret |-> EmptyMap]

\* No merge arguments in the specifications of replicas.
IdleM ==
    /\ a = EmptyMap
    /\ b = EmptyMap
    /\ c = EmptyMap
    /\ args0 = <<EmptyMap, EmptyMap, EmptyMap>>
    /\ res = EmptyMap

NoCall(op, u) ==
    [op |-> op, amount |-> 0, update |-> u, raised |-> "none", ret |-> EmptyMap]

\* The first observable state: GCounter(id) or GCounter(id, initial_state).
InitR ==
    \E id \in Ids, seeded \in BOOLEAN, initial_state \in Maps :
        /\ (~seeded => initial_state = EmptyMap)
        /\ replica_id = id
        /\ state = construct_state(seeded, initial_state)
        /\ kind = construct_kind(seeded, initial_state)
        /\ pre = [replica_id |-> id, state |-> EmptyMap, kept |-> {}]
        /\ call = NoCall(IF seeded THEN "init_seed" ELSE "init", initial_state)
        /\ kept = {}
        /\ own = [seeded |-> Get(state, id), added |-> 0,
                  overstated |-> FALSE, merged |-> FALSE]

\* increment(amount), failing or not.
Increment(amount) ==
    LET raised == increment_raises(kind, state, replica_id, amount)
        new == increment_state(state, replica_id, amount)
    IN  /\ Get(state, replica_id) + amount <= MaxCount
        /\ pre' = [replica_id |-> replica_id, state |-> state, kept |-> kept]
        /\ kept' = kept
        /\ own' = IF raised = "none"
                  THEN [own EXCEPT !.added = @ + amount] ELSE own
        /\ replica_id' = replica_id
        /\ kind' = kind
        /\ IF raised = "none"
           THEN /\ state' = new
                /\ call' = [op |-> "increment", amount |-> amount,
                            update |-> EmptyMap, raised |-> "none",
                            ret |-> increment_op(new, replica_id)]
           ELSE /\ state' = state
                /\ call' = [op |-> "increment", amount |-> amount,
                            update |-> EmptyMap, raised |-> raised,
                            ret |-> EmptyMap]
        /\ UNCHANGED <<varsM, varsN, varsT, varsH>>

\* The effect of apply_update(update_state) with any map: an operation, a
\* full state, or a malformed one.
Updated(update_state) ==
    /\ pre' = [replica_id |-> replica_id, state |-> state, kept |-> kept]
    /\ own' = [own EXCEPT
                 !.overstated =
                     @ \/ Get(update_state, replica_id) > own.seeded + own.added,
                 !.merged = @ \/ own.added > 0]
    /\ replica_id' = replica_id
    /\ state' = apply_update_state(state, update_state)
    /\ kind' = "dict"
    /\ call' = NoCall("apply_update", update_state)
    /\ UNCHANGED <<varsM, varsN, varsT, varsH>>

\* apply_update(update_state) by a caller that keeps nothing.
ApplyUpdate(update_state) ==
    /\ Updated(update_state)
    /\ kept' = kept

\* apply_update(update_state) by a caller that keeps the update, to deliver
\* it again later.
ApplyAndKeep(update_state) ==
    /\ kept = {}
    /\ Updated(update_state)
    /\ kept' = {update_state}

Init == InitR /\ IdleM /\ IdleN /\ IdleT /\ IdleH

Next ==
    \/ \E amount \in Amounts : Increment(amount)
    \/ \E update_state \in Maps : ApplyUpdate(update_state)

Spec == Init /\ [][Next]_vars

\* One replica whose caller keeps one of the updates it applied.
NextKeep ==
    \/ \E amount \in Amounts : Increment(amount)
    \/ \E update_state \in Maps : ApplyUpdate(update_state)
    \/ \E update_state \in Maps : ApplyAndKeep(update_state)

SpecKeep == Init /\ [][NextKeep]_vars

\* ------------------------------------------------------- merge on its own
InitMerge ==
    /\ IdleR
    /\ IdleN
    /\ IdleG
    /\ IdleH
    /\ IdleT
    /\ a \in Maps
    /\ b \in Maps
    /\ c \in Maps
    /\ args0 = <<a, b, c>>
    /\ res = EmptyMap

\* res[label] = merge(x, y), made once `after` has been made.
Returned(label, after, x, y) ==
    /\ label \notin DOMAIN res
    /\ after \subseteq DOMAIN res
    /\ res' = [l \in (DOMAIN res) \cup {label} |->
                 IF l = label THEN merge(x, y) ELSE res[l]]

\* merge(a, b)
Merge_ab ==
    /\ Returned("ab", {}, a, b)
    /\ a' = merge_inputs(a, b)[1]
    /\ b' = merge_inputs(a, b)[2]
    /\ UNCHANGED <<c, args0, varsR, varsN, varsG, varsT, varsH>>

\* merge(b, a)
Merge_ba ==
    /\ Returned("ba", {"ab"}, b, a)
    /\ b' = merge_inputs(b, a)[1]
    /\ a' = merge_inputs(b, a)[2]
    /\ UNCHANGED <<c, args0, varsR, varsN, varsG, varsT, varsH>>

\* merge(a, a)
Merge_aa ==
    /\ Returned("aa", {"ba"}, a, a)
    /\ a' = merge_inputs(a, a)[1]
    /\ UNCHANGED <<b, c, args0, varsR, varsN, varsG, varsT, varsH>>

\* merge(merge(a, b), c), on the map merge(a, b) returned
Merge_ab_c ==
    /\ Returned("ab_c", {"aa"}, res["ab"], c)
    /\ c' = merge_inputs(res["ab"], c)[2]
    /\ UNCHANGED <<a, b, args0, varsR, varsN, varsG, varsT, varsH>>

\* merge(b, c)
Merge_bc ==
    /\ Returned("bc", {"ab_c"}, b, c)
    /\ b' = merge_inputs(b, c)[1]
    /\ c' = merge_inputs(b, c)[2]
    /\ UNCHANGED <<a, args0, varsR, varsN, varsG, varsT, varsH>>

\* merge(a, merge(b, c)), on the map merge(b, c) returned
Merge_a_bc ==
    /\ Returned("a_bc", {"bc"}, a, res["bc"])
    /\ a' = merge_inputs(a, res["bc"])[1]
    /\ UNCHANGED <<b, c, args0, varsR, varsN, varsG, varsT, varsH>>

NextMerge ==
    \/ Merge_ab
    \/ Merge_ba
    \/ Merge_aa
    \/ Merge_ab_c
    \/ Merge_bc
    \/ Merge_a_bc

SpecMerge == InitMerge /\ [][NextMerge]_vars

\* ------------------------------------------------- replicas exchanging
\* node_A = GCounter("A"), node_B = GCounter("B"), ...: no seed.
InitNet ==
    /\ IdleR
    /\ IdleM
    /\ IdleG
    /\ IdleH
    /\ IdleT
    /\ rstate = [r \in Replicas |-> construct_state(FALSE, EmptyMap)]
    /\ rkind = [r \in Replicas |-> construct_kind(FALSE, EmptyMap)]
    /\ lastOp = [r \in Replicas |-> EmptyMap]
    /\ net = {}
    /\ hi = [p \in Replicas |-> [r \in Replicas |-> -1]]
    /\ incremented = [r \in Replicas |-> 0]

\* Replica p calls apply_update(update_state).
Applied(p, update_state) ==
    /\ rstate' = [rstate EXCEPT ![p] = apply_update_state(@, update_state)]
    /\ rkind' = [rkind EXCEPT ![p] = "dict"]
    /\ hi' = [hi EXCEPT ![p] =
                 [r \in Replicas |->
                     IF r # p /\ r \in DOMAIN update_state
                     THEN Max(@[r], update_state[r]) ELSE @[r]]]

\* Replica r calls increment(amount); a call that raises changes nothing.
NetIncrement(r, amount) ==
    /\ Get(rstate[r], r) + amount <= MaxCount
    /\ IF increment_raises(rkind[r], rstate[r], r, amount) = "none"
       THEN /\ rstate' = [rstate EXCEPT ![r] = increment_state(@, r, amount)]
            /\ lastOp' = [lastOp EXCEPT ![r] = increment_op(rstate'[r], r)]
            /\ incremented' = [incremented EXCEPT ![r] = @ + amount]
       ELSE UNCHANGED <<rstate, lastOp, incremented>>
    /\ UNCHANGED <<rkind, net, hi, varsR, varsM, varsG, varsT, varsH>>

\* Replica r puts the operation it got last in flight.
SendOp(r) ==
    /\ lastOp[r] # EmptyMap
    /\ Cardinality(net) < MaxNet
    /\ net' = net \cup {lastOp[r]}
    /\ UNCHANGED <<rstate, rkind, lastOp, hi, incremented, varsR, varsM, varsG, varsT, varsH>>

\* Replica r puts a copy of its full state in flight.
SendState(r) ==
    /\ Cardinality(net) < MaxNet
    /\ net' = net \cup {rstate[r]}
    /\ UNCHANGED <<rstate, rkind, lastOp, hi, incremented, varsR, varsM, varsG, varsT, varsH>>

\* Replica p is handed the latest operation of replica r.
DeliverLatest(p, r) ==
    /\ p # r
    /\ lastOp[r] # EmptyMap
    /\ Applied(p, lastOp[r])
    /\ UNCHANGED <<lastOp, net, incremented, varsR, varsM, varsG, varsT, varsH>>

\* Replica p is handed an update in flight, which stays in flight: it may
\* be stale by now and may be delivered again.
Deliver(p, m) ==
    /\ m \in net
    /\ Applied(p, m)
    /\ UNCHANGED <<lastOp, net, incremented, varsR, varsM, varsG, varsT, varsH>>

\* An update in flight is lost.
Lose(m) ==
    /\ m \in net
    /\ net' = net \ {m}
    /\ UNCHANGED <<rstate, rkind, lastOp, hi, incremented, varsR, varsM, varsG, varsT, varsH>>

NextNet ==
    \/ \E r \in Replicas, amount \in Amounts : NetIncrement(r, amount)
    \/ \E r \in Replicas : SendOp(r)
    \/ \E r \in Replicas : SendState(r)
    \/ \E p \in Replicas, r \in Replicas : DeliverLatest(p, r)
    \/ \E p \in Replicas, m \in net : Deliver(p, m)
    \/ \E m \in net : Lose(m)

SpecNet == InitNet /\ [][NextNet]_vars

\* Fair delivery: the latest operation of every replica is eventually handed
\* to every other replica.
FairNet ==
    /\ SpecNet
    /\ \A p \in Replicas, r \in Replicas : WF_vars(DeliverLatest(p, r))

\* ------------------------------------- two orders of the same updates
\* x = GCounter("A", seed) and y = GCounter("A", seed), and two updates
\* that both are going to apply.
InitOrder ==
    /\ IdleR
    /\ IdleM
    /\ IdleN
    /\ IdleG
    /\ IdleH
    /\ tid = "A"
    /\ \E initial_state \in Maps :
          twin = [o \in Twins |->
                     [state |-> construct_state(TRUE, initial_state),
                      kind |-> construct_kind(TRUE, initial_state)]]
    /\ tin \in Maps \X Maps
    /\ tout = [o \in Twins |-> [op |-> "init", raised |-> "none",
                                ret |-> EmptyMap]]
    /\ tlog = [o \in Twins |-> [applied |-> {}, first |-> 0]]

\* Object o calls apply_update(update_state), which carries the updates
\* `which` of the two.
TwinApplied(o, update_state, which, label) ==
    /\ twin' = [twin EXCEPT ![o] =
                   [state |-> apply_update_state(@.state, update_state),
                    kind |-> "dict"]]
    /\ tlog' = [tlog EXCEPT ![o] =
                   [applied |-> @.applied \cup which,
                    first |-> IF @.applied = {} THEN label ELSE @.first]]
    /\ UNCHANGED <<tid, tin, tout, varsR, varsM, varsN, varsG, varsH>>

\* x applies the two updates once each, the first one first.
OrderApplyX(i) ==
    /\ i = Cardinality(tlog["x"].applied) + 1
    /\ TwinApplied("x", tin[i], {i}, i)

\* y applies either update at any time, again and again.
OrderApplyY(i) == TwinApplied("y", tin[i], {i}, i)

\* y applies the two updates merged into one beforehand.
OrderApplyMergedY == TwinApplied("y", merge(tin[1], tin[2]), {1, 2}, 3)

NextOrder ==
    \/ \E i \in {1, 2} : OrderApplyX(i)
    \/ \E i \in {1, 2} : OrderApplyY(i)
    \/ OrderApplyMergedY

SpecOrder == InitOrder /\ [][NextOrder]_vars

\* --------------------------------- a seeded replica and an updated one
\* x = GCounter(id) or GCounter(id, initial_state); y = GCounter(id) brought
\* to the same state map by y.apply_update(initial_state), or by
\* y.apply_update({}) when x has no seed.
InitTwin ==
    /\ IdleR
    /\ IdleM
    /\ IdleN
    /\ IdleG
    /\ IdleH
    /\ \E id \in Ids, seeded \in BOOLEAN, initial_state \in Maps :
          /\ (~seeded => initial_state = EmptyMap)
          /\ tid = id
          /\ tin = [seeded |-> seeded, initial_state |-> initial_state]
          /\ twin = [o \in Twins |->
                IF o = "x"
                THEN [state |-> construct_state(seeded, initial_state),
                      kind |-> construct_kind(seeded, initial_state)]
                ELSE [state |-> apply_update_state(
                                    construct_state(FALSE, EmptyMap),
                                    initial_state),
                      kind |-> "dict"]]
    /\ tout = [o \in Twins |-> [op |-> "init", raised |-> "none",
                                ret |-> EmptyMap]]
    /\ tlog = [o \in Twins |-> [applied |-> {}, first |-> 0]]

\* Both objects call increment(amount), each with its own outcome.
TwinIncrement(amount) ==
    /\ \A o \in Twins : Get(twin[o].state, tid) + amount <= MaxCount
    /\ twin' = [o \in Twins |->
          IF increment_raises(twin[o].kind, twin[o].state, tid, amount) = "none"
          THEN [twin[o] EXCEPT !.state = increment_state(@, tid, amount)]
          ELSE twin[o]]
    /\ tout' = [o \in Twins |->
          [op |-> "increment",
           raised |-> increment_raises(twin[o].kind, twin[o].state, tid, amount),
           ret |-> IF increment_raises(twin[o].kind, twin[o].state, tid,
                                       amount) = "none"
                   THEN increment_op(twin'[o].state, tid) ELSE EmptyMap]]
    /\ UNCHANGED <<tid, tin, tlog, varsR, varsM, varsN, varsG, varsH>>

\* Both objects call apply_update(update_state).
TwinUpdate(update_state) ==
    /\ twin' = [o \in Twins |->
          [state |-> apply_update_state(twin[o].state, update_state),
           kind |-> "dict"]]
    /\ tout' = [o \in Twins |-> [op |-> "apply_update", raised |-> "none",
                                 ret |-> EmptyMap]]
    /\ UNCHANGED <<tid, tin, tlog, varsR, varsM, varsN, varsG, varsH>>

NextTwin ==
    \/ \E amount \in Amounts : TwinIncrement(amount)
    \/ \E update_state \in Maps : TwinUpdate(update_state)

SpecTwin == InitTwin /\ [][NextTwin]_vars

\* ------------------------------------------------- objects and references
\* Enough objects for the states of the replicas, the two objects the
\* caller holds and the one being made.
ObjIds == 1 .. (Cardinality(Replicas) + 3)

\* A cell of the heap that holds no object.
NoObject == [kind |-> "dict", map |-> EmptyMap]

\* The dicts the caller writes out: {}, {"A": 1}, {"B": 1}.
Literals == {EmptyMap} \cup {[k \in {r} |-> 1] : r \in Replicas}

\* The references there are, in a fixed order.
Refs(ss, sl) == <<ss["A"], ss["B"], sl.op, sl.passed>>

\* The objects something refers to.
Live(ss, sl) == {Refs(ss, sl)[j] : j \in 1 .. 4} \ {0}

\* The cell a new object is made in.
Fresh(ss, sl) ==
    CHOOSE i \in ObjIds \ Live(ss, sl) : \A j \in ObjIds \ Live(ss, sl) : i <= j

\* Which object is in which cell is not observable (id() aside), so the
\* objects are kept in the order of the first reference to them, and 0
\* stays the absent reference.
Rank(x, ss, sl) ==
    LET refs == Refs(ss, sl)
        first == CHOOSE j \in 1 .. 4 :
                     refs[j] = x /\ \A k \in 1 .. (j - 1) : refs[k] # x
    IN  IF x = 0 THEN 0 ELSE Cardinality({refs[k] : k \in 1 .. first} \ {0})

\* The heap without the objects nothing refers to any more.
Collect(h, ss, sl) ==
    [i \in ObjIds |->
        IF \E x \in Live(ss, sl) : Rank(x, ss, sl) = i
        THEN h[CHOOSE x \in Live(ss, sl) : Rank(x, ss, sl) = i]
        ELSE NoObject]

\* The references after a call that leaves the replicas referring to ss
\* and the caller holding sl, on the heap h.
Rebound(h, ss, sl) ==
    /\ heap' = Collect(h, ss, sl)
    /\ self_state' = [r \in Replicas |-> Rank(ss[r], ss, sl)]
    /\ slots' = [op |-> Rank(sl.op, ss, sl), passed |-> Rank(sl.passed, ss, sl)]

\* merge filling its second argument and returning it.
merge_result_ref_second(ref1, ref2, fresh) == ref2

\* The object merge returns: merged_state = {} is a new dict, not one of
\* the arguments.
merge_result_ref(ref1, ref2, fresh) == fresh

\* The heap after merge(ref1, ref2), with `fresh` the cell for a new dict.
merge_heap(h, ref1, ref2, fresh) ==
    [h EXCEPT ![merge_result_ref(ref1, ref2, fresh)] =
        [kind |-> "dict", map |-> merge(h[ref1].map, h[ref2].map)]]

\* The state maps of the replicas other than r, as they are now.
OthersNow(r) ==
    [q \in Replicas \ {r} |->
        IF self_state[q] = 0 THEN EmptyMap ELSE heap[self_state[q]].map]

\* The objects the caller can pass where a dict is expected: the operation
\* it holds, the dict it made last, and the state of a replica itself.
Passable == Live(self_state, slots)

InitHeap ==
    /\ IdleR
    /\ IdleM
    /\ IdleN
    /\ IdleG
    /\ IdleT
    /\ heap = [i \in ObjIds |-> NoObject]
    /\ self_state = [r \in Replicas |-> 0]
    /\ slots = [op |-> 0, passed |-> 0]
    /\ snap = [op |-> EmptyMap, passed |-> EmptyMap]
    /\ hlast = [actor |-> "none", others |-> EmptyMap]

\* GCounter(r, initial_state) with initial_state the object `seed` (0 for
\* None), on the heap h with the caller holding sl.
Constructed(r, h, sl, seed) ==
    LET d == Fresh(self_state, sl)
        h1 == [h EXCEPT ![d] = [kind |-> "defaultdict", map |-> EmptyMap]]
        ss1 == [self_state EXCEPT ![r] = d]
        m == Fresh(ss1, sl)
        truthy == seed # 0 /\ DOMAIN h[seed].map # {}
        ss2 == IF truthy
               THEN [self_state EXCEPT ![r] = merge_result_ref(d, seed, m)]
               ELSE ss1
        h2 == IF truthy THEN merge_heap(h1, d, seed, m) ELSE h1
    IN  /\ self_state[r] = 0
        /\ Rebound(h2, ss2, sl)
        /\ hlast' = [actor |-> r, others |-> OthersNow(r)]

\* r.apply_update(update_state) with update_state the object u.
Merged(r, h, sl, u) ==
    LET m == Fresh(self_state, sl)
        ss1 == [self_state EXCEPT ![r] = merge_result_ref(self_state[r], u, m)]
    IN  /\ self_state[r] # 0
        /\ Rebound(merge_heap(h, self_state[r], u, m), ss1, sl)
        /\ hlast' = [actor |-> r, others |-> OthersNow(r)]

\* The caller makes the dict `content`, in place of the one it made before.
LiteralSlots == [slots EXCEPT !.passed = Fresh(self_state, [slots EXCEPT !.passed = 0])]

LiteralHeap(content) ==
    [heap EXCEPT ![LiteralSlots.passed] = [kind |-> "dict", map |-> content]]

\* GCounter(r)
H_Construct(r) ==
    /\ Constructed(r, heap, slots, 0)
    /\ UNCHANGED <<snap, varsR, varsM, varsN, varsG, varsT>>

\* GCounter(r, content), content a dict the caller makes and keeps
H_ConstructLiteral(r, content) ==
    /\ Constructed(r, LiteralHeap(content), LiteralSlots, LiteralSlots.passed)
    /\ snap' = [snap EXCEPT !.passed = content]
    /\ UNCHANGED <<varsR, varsM, varsN, varsG, varsT>>

\* GCounter(r, u), u an existing object: node_B = GCounter("B", node_A.state)
H_ConstructRef(r, u) ==
    /\ u \in Passable
    /\ Constructed(r, heap, slots, u)
    /\ UNCHANGED <<snap, varsR, varsM, varsN, varsG, varsT>>

\* r.increment(amount): the entry is changed in the object self.state is,
\* and the caller keeps the new dict returned, in place of the last one.
H_Increment(r, amount) ==
    LET s == self_state[r]
        h1 == [heap EXCEPT ![s].map = increment_state(@, r, amount)]
        o == Fresh(self_state, slots)
        sl1 == [slots EXCEPT !.op = o]
    IN  /\ s # 0
        /\ Get(heap[s].map, r) + amount <= MaxCount
        /\ IF increment_raises(heap[s].kind, heap[s].map, r, amount) = "none"
           THEN /\ Rebound([h1 EXCEPT ![o] = [kind |-> "dict",
                                              map |-> increment_op(h1[s].map, r)]],
                           self_state, sl1)
                /\ snap' = [snap EXCEPT !.op = increment_op(h1[s].map, r)]
           ELSE UNCHANGED <<heap, self_state, slots, snap>>
        /\ hlast' = [actor |-> r, others |-> OthersNow(r)]
        /\ UNCHANGED <<varsR, varsM, varsN, varsG, varsT>>

\* r.apply_update(content), content a dict the caller makes and keeps
H_ApplyLiteral(r, content) ==
    /\ Merged(r, LiteralHeap(content), LiteralSlots, LiteralSlots.passed)
    /\ snap' = [snap EXCEPT !.passed = content]
    /\ UNCHANGED <<varsR, varsM, varsN, varsG, varsT>>

\* r.apply_update(u), u an existing object: an operation returned before,
\* the dict made last, or the state of a replica itself
H_ApplyRef(r, u) ==
    /\ u \in Passable
    /\ Merged(r, heap, slots, u)
    /\ UNCHANGED <<snap, varsR, varsM, varsN, varsG, varsT>>

NextHeap ==
    \/ \E r \in Replicas : H_Construct(r)
    \/ \E r \in Replicas, content \in Literals : H_ConstructLiteral(r, content)
    \/ \E r \in Replicas, u \in ObjIds : H_ConstructRef(r, u)
    \/ \E r \in Replicas, amount \in Amounts : H_Increment(r, amount)
    \/ \E r \in Replicas, content \in Literals : H_ApplyLiteral(r, content)
    \/ \E r \in Replicas, u \in ObjIds : H_ApplyRef(r, u)

SpecHeap == InitHeap /\ [][NextHeap]_vars

\* ------------------------------------------------------------------ claims

\* C1: in every reachable replica state, also one without an entry for the
\* replica's own id, increment(amount) with amount >= 0 raises nothing and
\* leaves the own entry at its previous count (0 if absent) plus amount.
C1_IncrementAlwaysSucceeds ==
    (call.op = "increment" /\ call.amount >= 0) =>
        /\ call.raised = "none"
        /\ replica_id \in DOMAIN state
        /\ state[replica_id] = Get(pre.state, replica_id) + call.amount

\* C3: value() after every call, failed and stale ones included, is at
\* least value() before it.
C3_ValueMonotonic == [][value(state') >= value(state)]_vars

\* C3 witness: a stale update (a smaller count for a known key) was applied
\* to a replica whose value was positive, and the value did not drop.
C3_Witness ==
    /\ call.op = "apply_update"
    /\ \E k \in DOMAIN call.update :
          k \in DOMAIN pre.state /\ call.update[k] < pre.state[k]
    /\ value(pre.state) > 0
    /\ value(state) >= value(pre.state)

\* C4: no step removes a key of the local map or lowers a stored count.
C4_GrowOnly ==
    [][\A k \in DOMAIN state : k \in DOMAIN state' /\ state'[k] >= state[k]]_vars

\* C4 witness: an update that lacks a known key and carries a smaller count
\* for another known key was applied, and both keys kept their counts.
C4_Witness ==
    /\ call.op = "apply_update"
    /\ \E k \in DOMAIN pre.state : k \notin DOMAIN call.update
    /\ \E k \in DOMAIN pre.state :
          k \in DOMAIN call.update /\ call.update[k] < pre.state[k]
    /\ \A k \in DOMAIN pre.state : k \in DOMAIN state /\ state[k] = pre.state[k]

\* C5: increment(amount) with amount < 0 raises ValueError and leaves the
\* state map, and so value(), as it was.
C5_NegativeRejected ==
    (call.op = "increment" /\ call.amount < 0) =>
        /\ call.raised = "ValueError"
        /\ state = pre.state
        /\ value(state) = value(pre.state)

\* C5 witness: a negative increment was rejected on a replica that held a
\* positive own count.
C5_Witness ==
    /\ call.op = "increment"
    /\ call.amount < 0
    /\ call.raised = "ValueError"
    /\ Get(state, replica_id) > 0

\* C6: the operation a successful increment returns has exactly one entry,
\* keyed by the replica's id, holding the new cumulative own total (the
\* local entry at return time, previous count plus amount), which is >= 0.
C6_OperationShape ==
    (call.op = "increment" /\ call.raised = "none") =>
        /\ DOMAIN call.ret = {replica_id}
        /\ call.ret[replica_id] = state[replica_id]
        /\ call.ret[replica_id] = Get(pre.state, replica_id) + call.amount
        /\ call.ret[replica_id] >= 0

\* C6 witness: an increment on a replica with a positive own count and a
\* known peer returned a total that differs from the amount.
C6_Witness ==
    /\ call.op = "increment"
    /\ call.raised = "none"
    /\ call.amount > 0
    /\ Get(pre.state, replica_id) > 0
    /\ call.ret[replica_id] # call.amount
    /\ DOMAIN state # {replica_id}

\* C7: increment leaves every other replica id's presence and count, and
\* the replica id, as they were.
C7_IncrementFrame ==
    (call.op = "increment") =>
        /\ replica_id = pre.replica_id
        /\ \A k \in Ids \ {replica_id} :
              /\ (k \in DOMAIN state) <=> (k \in DOMAIN pre.state)
              /\ Get(state, k) = Get(pre.state, k)

\* C7 witness: a successful increment changed the own entry of a replica
\* that also holds a positive count for another id.
C7_Witness ==
    /\ call.op = "increment"
    /\ call.raised = "none"
    /\ call.amount > 0
    /\ state # pre.state
    /\ \E k \in Ids \ {replica_id} : k \in DOMAIN state /\ state[k] > 0

\* C8: merge(A, B) has exactly the keys of A and of B, each with the larger
\* of the two counts (0 for an absent key), and both arguments are after
\* the call what they were before it.
C8_MergeIsKeywiseMax ==
    ("ab" \in DOMAIN res) =>
        /\ DOMAIN res["ab"] = (DOMAIN args0[1]) \cup (DOMAIN args0[2])
        /\ \A k \in DOMAIN res["ab"] :
              /\ res["ab"][k] >= Get(args0[1], k)
              /\ res["ab"][k] >= Get(args0[2], k)
              /\ res["ab"][k] \in {Get(args0[1], k), Get(args0[2], k)}
        /\ a = args0[1]
        /\ b = args0[2]

\* C8 witness: merge(A, B) was made with a key only B has, a key both have
\* with different counts, and a negative count.
C8_Witness ==
    /\ "ab" \in DOMAIN res
    /\ \E k \in DOMAIN args0[2] : k \notin DOMAIN args0[1] /\ args0[2][k] < 0
    /\ \E k \in DOMAIN args0[1] :
          k \in DOMAIN args0[2] /\ args0[1][k] > args0[2][k]

\* C9: merge(s, s) equals s, keys and counts.
C9_MergeIdempotent ==
    ("aa" \in DOMAIN res) => res["aa"] = args0[1]

\* C9 witness: merge(s, s) was made on a map of two keys with a positive
\* count.
C9_Witness ==
    /\ "aa" \in DOMAIN res
    /\ DOMAIN args0[1] = Ids
    /\ \E k \in Ids : args0[1][k] > 0

\* C10: merge(a, b) equals merge(b, a), keys and counts.
C10_MergeCommutative ==
    ({"ab", "ba"} \subseteq DOMAIN res) => res["ab"] = res["ba"]

\* C10 witness: both calls were made on maps with different key sets and
\* different counts for a key they share.
C10_Witness ==
    /\ {"ab", "ba"} \subseteq DOMAIN res
    /\ DOMAIN args0[1] # DOMAIN args0[2]
    /\ \E k \in (DOMAIN args0[1]) \cap (DOMAIN args0[2]) :
          args0[1][k] # args0[2][k]

\* Every replica has applied an update that carries the latest operation of
\* every other replica that has one.
AllApplied ==
    \A p \in Replicas, r \in Replicas :
        (p # r /\ lastOp[r] # EmptyMap) => hi[p][r] >= lastOp[r][r]

\* All replicas report the same value().
SameValue ==
    \A p \in Replicas, q \in Replicas : value(rstate[p]) = value(rstate[q])

\* C2: whenever every replica has applied every other replica's latest
\* operation (or a full state carrying it), in whatever order and with
\* whatever stale and duplicate deliveries, all replicas report the same
\* value(); under fair delivery that state is eventually reached for good.
C2_Convergence ==
    /\ [](AllApplied => SameValue)
    /\ <>[](AllApplied /\ SameValue)

\* C2 witness: both replicas have incremented, one of them twice, a
\* stale update is in flight, and every latest operation has been applied
\* everywhere.
C2_Witness ==
    /\ AllApplied
    /\ SameValue
    /\ \A r \in Replicas : lastOp[r] # EmptyMap /\ lastOp[r][r] >= 1
    /\ \E r \in Replicas : lastOp[r][r] >= 2
    /\ \E m \in net : \E r \in DOMAIN m : m[r] < lastOp[r][r]

\* C11: merge(merge(a, b), c) equals merge(a, merge(b, c)), keys and counts.
C11_MergeAssociative ==
    ({"ab_c", "a_bc"} \subseteq DOMAIN res) => res["ab_c"] = res["a_bc"]

\* C11 witness: both groupings were made on three different maps, where c
\* holds a key that b lacks with a larger count than a holds for it.
C11_Witness ==
    /\ {"ab_c", "a_bc"} \subseteq DOMAIN res
    /\ args0[1] # args0[2] /\ args0[2] # args0[3] /\ args0[1] # args0[3]
    /\ \E k \in (DOMAIN args0[1]) \cap (DOMAIN args0[3]) :
          k \notin DOMAIN args0[2] /\ args0[3][k] > args0[1][k]

\* s1 <= s2: every key's count in s1 is at most its count in s2, absent = 0.
Dominated(s1, s2) == \A k \in Ids : Get(s1, k) <= Get(s2, k)

\* A map without a negative count.
NonNegative(s) == \A k \in DOMAIN s : s[k] >= 0

\* C12: for maps a and b with non-negative counts, merge(a, b) dominates a
\* and b, and every map that dominates a and b dominates merge(a, b).
C12_MergeIsLeastUpperBound ==
    ("ab" \in DOMAIN res /\ NonNegative(args0[1]) /\ NonNegative(args0[2])) =>
        /\ Dominated(args0[1], res["ab"])
        /\ Dominated(args0[2], res["ab"])
        /\ \A u \in Maps :
              (Dominated(args0[1], u) /\ Dominated(args0[2], u))
                  => Dominated(res["ab"], u)

\* C12 witness: merge(a, b) was made on two non-negative maps neither of
\* which dominates the other, and the third map is an upper bound of both
\* that differs from what merge returned.
C12_Witness ==
    /\ "ab" \in DOMAIN res
    /\ NonNegative(args0[1]) /\ NonNegative(args0[2])
    /\ ~Dominated(args0[1], args0[2])
    /\ ~Dominated(args0[2], args0[1])
    /\ Dominated(args0[1], args0[3]) /\ Dominated(args0[2], args0[3])
    /\ args0[3] # res["ab"]

\* C18: every count a replica stores is >= 0 and so is value(), also after
\* a seed or an update with negative counts: a negative count for an absent
\* key is stored as 0 and one for a known key changes nothing.
C18_NonNegativeState ==
    /\ \A k \in DOMAIN state : state[k] >= 0
    /\ value(state) >= 0
    /\ (call.op \in {"init_seed", "apply_update"}) =>
          \A k \in DOMAIN call.update :
              (call.update[k] < 0) =>
                  (k \in DOMAIN state /\ state[k] = Get(pre.state, k))

\* C18 witness: an update with a negative count for an absent key and a
\* negative count for a key held with a positive count was applied.
C18_Witness ==
    /\ call.op = "apply_update"
    /\ \E k \in DOMAIN call.update :
          call.update[k] < 0 /\ k \notin DOMAIN pre.state /\ state[k] = 0
    /\ \E k \in DOMAIN call.update :
          call.update[k] < 0 /\ k \in DOMAIN pre.state /\ pre.state[k] > 0

\* C13: applying again an update that was applied before, directly after it
\* or after other increments and updates, leaves the state map and value()
\* as they were.
C13_RedeliveryChangesNothing ==
    (call.op = "apply_update" /\ call.update \in pre.kept) =>
        /\ state = pre.state
        /\ value(state) = value(pre.state)

\* C13 witness: an update with a positive count was applied again to a
\* replica that by then held more than the update carries.
C13_Witness ==
    /\ call.op = "apply_update"
    /\ call.update \in pre.kept
    /\ \E k \in DOMAIN call.update : call.update[k] > 0
    /\ \E k \in Ids : Get(state, k) > Get(call.update, k)

\* C20: with every call one atomic step and no update overstating the own
\* count, the own entry is the own count after construction plus the
\* amounts of all successful increments.
C20_NoLostIncrement ==
    (~own.overstated) => Get(state, replica_id) = own.seeded + own.added

\* C20 witness: a second increment succeeded after an update that was
\* applied after an earlier increment, and no update overstated.
C20_Witness ==
    /\ call.op = "increment"
    /\ call.raised = "none"
    /\ call.amount > 0
    /\ own.merged
    /\ own.added > call.amount
    /\ ~own.overstated
    /\ DOMAIN state # {replica_id}

\* The states of the example: {"A": 2}, {"B": 1} and {"A": 2, "B": 1}.
StateA2 == [k \in {"A"} |-> 2]

StateB1 == [k \in {"B"} |-> 1]

StateA2B1 == [k \in {"A", "B"} |-> IF k = "A" THEN 2 ELSE 1]

\* C16: with A's increments adding up to 2 (latest operation {A: 2}) and
\* B's to 1 (latest operation {B: 1}): before any delivery A holds {A: 2},
\* value 2, and B holds {B: 1}, value 1; once B has applied {A: 2} it holds
\* {A: 2, B: 1}, value 3; once A has applied {B: 1} it holds {A: 2, B: 1},
\* value 3; in whichever order the two deliveries happen.
C16_ExchangeScenario ==
    (/\ lastOp["A"] = StateA2 /\ incremented["A"] = 2
     /\ lastOp["B"] = StateB1 /\ incremented["B"] = 1) =>
        /\ (hi["A"]["B"] = -1) =>
              (rstate["A"] = StateA2 /\ value(rstate["A"]) = 2)
        /\ (hi["B"]["A"] = -1) =>
              (rstate["B"] = StateB1 /\ value(rstate["B"]) = 1)
        /\ (hi["B"]["A"] = 2) =>
              (rstate["B"] = StateA2B1 /\ value(rstate["B"]) = 3)
        /\ (hi["A"]["B"] = 1) =>
              (rstate["A"] = StateA2B1 /\ value(rstate["A"]) = 3)

\* C16 witness: the end of the example: both deliveries made, both
\* replicas at {A: 2, B: 1} with value 3.
C16_Witness ==
    /\ lastOp["A"] = StateA2 /\ incremented["A"] = 2
    /\ lastOp["B"] = StateB1 /\ incremented["B"] = 1
    /\ hi["B"]["A"] = 2
    /\ hi["A"]["B"] = 1
    /\ rstate["A"] = StateA2B1
    /\ rstate["B"] = StateA2B1
    /\ value(rstate["A"]) = 3
    /\ value(rstate["B"]) = 3

\* C19: replicas that start empty and apply only operations and full states
\* of each other, in any order, lost or repeated: no replica stores for a
\* replica r more than r stores for itself, and no value() exceeds the
\* amounts incremented so far on all replicas together.
C19_NoOvercounting ==
    /\ \A p \in Replicas, r \in Replicas :
          Get(rstate[p], r) <= Get(rstate[r], r)
    /\ \A p \in Replicas : value(rstate[p]) <= SumValues(incremented)

\* C19 witness: both replicas have incremented, one holds the whole total,
\* and a stale update is still in flight.
C19_Witness ==
    /\ \A r \in Replicas : incremented[r] >= 1
    /\ \E p \in Replicas : value(rstate[p]) = SumValues(incremented)
    /\ \E m \in net : \E r \in DOMAIN m : m[r] < Get(rstate[r], r)

\* C14: two replicas that start from the same state and have applied the
\* same updates, in whatever order, grouping and repetition, hold the same
\* state map.
C14_OrderIndependent ==
    (tlog["x"].applied = tlog["y"].applied) =>
        twin["x"].state = twin["y"].state

\* C14 witness: x applied the first update and then the second, y applied
\* the second one first; the updates disagree on a key, each carries
\* something the start state lacks, and the start state is not empty.
C14_Witness ==
    /\ tlog["x"].applied = {1, 2}
    /\ tlog["y"].applied = {1, 2}
    /\ tlog["y"].first = 2
    /\ \E k \in (DOMAIN tin[1]) \cap (DOMAIN tin[2]) : tin[1][k] > tin[2][k]
    /\ \E k \in DOMAIN tin[2] : tin[2][k] > Get(tin[1], k)
    /\ twin["x"].state # merge(tin[1], tin[2])

\* The first state of a constructed replica: with a seed S the keys of S, a
\* non-negative count of S stored as it is; without a seed, or with an
\* empty one, the empty map with value() = 0.
C17_ConstructedState ==
    (tout["x"].op = "init") =>
        IF tin.seeded /\ DOMAIN tin.initial_state # {}
        THEN /\ DOMAIN twin["x"].state = DOMAIN tin.initial_state
             /\ \A k \in DOMAIN tin.initial_state :
                   (tin.initial_state[k] >= 0) =>
                       twin["x"].state[k] = tin.initial_state[k]
        ELSE /\ twin["x"].state = EmptyMap
             /\ value(twin["x"].state) = 0

\* The constructed replica and the one that reached the same state map by
\* apply_update answer every call alike: same exception, same returned
\* operation, same state map afterwards.
C17_SameBehaviour ==
    /\ twin["x"].state = twin["y"].state
    /\ tout["x"].raised = tout["y"].raised
    /\ tout["x"].ret = tout["y"].ret

\* C17: a replica constructed with seed S holds merge(empty, S), one
\* constructed without a seed (or with an empty one) holds the empty map
\* with value 0, and from that first state on it supports every operation
\* exactly like a replica that reached the same state by apply_update.
C17_SeededLikeUpdated ==
    /\ C17_ConstructedState
    /\ C17_SameBehaviour

\* C15: the object a replica's self.state refers to is never an operation
\* increment returned, a dict passed as update_state or initial_state, or
\* the state of another replica; so no later call changes an operation or
\* a dict the caller holds, and a call on one replica leaves the state map
\* of the other as it was.
C15_NoAliasing ==
    /\ \A r \in Replicas :
          (self_state[r] # 0) => self_state[r] \notin {slots.op, slots.passed}
    /\ \A r \in Replicas, q \in Replicas :
          (r # q /\ self_state[r] # 0) => self_state[r] # self_state[q]
    /\ (slots.op # 0) => heap[slots.op].map = snap.op
    /\ (slots.passed # 0) => heap[slots.passed].map = snap.passed
    /\ \A q \in DOMAIN hlast.others :
          (self_state[q] # 0) => heap[self_state[q]].map = hlast.others[q]

\* C15 witness: the caller holds an operation of A and a dict it passed in;
\* A has since moved past the operation, B holds more than the dict, and
\* the two replicas hold different states.
C15_Witness ==
    /\ self_state["A"] # 0 /\ self_state["B"] # 0
    /\ slots.op # 0 /\ slots.passed # 0
    /\ DOMAIN snap.op = {"A"}
    /\ heap[self_state["A"]].map["A"] > snap.op["A"]
    /\ DOMAIN snap.passed # {}
    /\ DOMAIN heap[self_state["B"]].map = Replicas
    /\ heap[self_state["B"]].map # snap.passed
    /\ heap[self_state["B"]].map # heap[self_state["A"]].map
    /\ hlast.actor = "B"

====
